---- MODULE Spec2Model ----
(***************************************************************************)
(* Model of repositoryAnalyzer.py: parse_commits walks the commits of a    *)
(* repository and builds the flat list of ParsedCommit records; the        *)
(* reporter functions (get_list_of_files, get_list_of_user_emails) and the *)
(* aggregator functions (group_data_by_date, group_data_by_file) are then  *)
(* called on that list.  The aggregators sort the list in place.           *)
(*                                                                         *)
(* Strings are sequences of one-character strings, compared as Python      *)
(* compares str (by code point, lexicographically).  An optional value is  *)
(* <<>> for None and <<v>> for a present value v.  A dict is the sequence  *)
(* of its <<key, value>> pairs in insertion order.  A float is the exact   *)
(* rational [num, den] in lowest terms; the text of f"{x:.3f}" is the      *)
(* integer number of thousandths it prints.                                *)
(***************************************************************************)
EXTENDS Integers, Sequences, FiniteSets, TLC

VARIABLES repo, filter_by_name, filter_by_extension, filter_by_email,
          pc, next, linear_history_list, stdout, ret

vars == <<repo, filter_by_name, filter_by_extension, filter_by_email,
          pc, next, linear_history_list, stdout, ret>>

(***************************************************************************)
(* Bounds of the model.                                                    *)
(***************************************************************************)
MaxFiles == 2
MaxCcn == 10
MaxMethods == 5

(***************************************************************************)
(* Strings.                                                                *)
(***************************************************************************)
Ord ==
    "." :> 46 @@ "1" :> 49 @@ "2" :> 50 @@ "3" :> 51 @@ "4" :> 52 @@ "@" :> 64
    @@ "a" :> 97 @@ "b" :> 98 @@ "c" :> 99 @@ "h" :> 104 @@ "x" :> 120

\* Python's str < str
StrLess(s, t) ==
    \/ /\ Len(s) < Len(t)
       /\ \A i \in 1..Len(s) : s[i] = t[i]
    \/ \E k \in 1..Len(s) :
          /\ k <= Len(t)
          /\ \A i \in 1..(k - 1) : s[i] = t[i]
          /\ Ord[s[k]] < Ord[t[k]]

None == <<>>
Some(v) == <<v>>

\* os.path.splitext on a bare file name: the extension starts at the last
\* dot, unless only dots precede it
splitext(p) ==
    LET dots == {i \in 1..Len(p) : p[i] = "."}
        dotIndex == IF dots = {} THEN 0
                    ELSE CHOOSE i \in dots : \A j \in dots : j <= i
    IN  IF dotIndex > 0 /\ \E i \in 1..(dotIndex - 1) : p[i] # "."
        THEN <<SubSeq(p, 1, dotIndex - 1), SubSeq(p, dotIndex, Len(p))>>
        ELSE <<p, <<>> >>

(***************************************************************************)
(* list.sort(key=...) / sorted(): a stable sort.  groupby(): the maximal   *)
(* runs of consecutive items with equal keys.                              *)
(***************************************************************************)
\* key[i] is the key of s[i]; the items are inserted one by one, each after
\* the items whose key is not greater
Keyed(s, key) == [i \in 1..Len(s) |-> <<key[i], s[i]>>]
Unkeyed(pairs) == [i \in 1..Len(pairs) |-> pairs[i][2]]

InsertKeyed(acc, x) ==
    LET k == Cardinality({j \in 1..Len(acc) : ~StrLess(x[1], acc[j][1])})
    IN  SubSeq(acc, 1, k) \o <<x>> \o SubSeq(acc, k + 1, Len(acc))

RECURSIVE SortKeyed(_, _)
SortKeyed(acc, rest) ==
    IF rest = <<>> THEN acc
    ELSE SortKeyed(InsertKeyed(acc, rest[1]), Tail(rest))

StableSort(s, key) == Unkeyed(SortKeyed(<<>>, Keyed(s, key)))

RECURSIVE RunsOf(_, _)
RunsOf(acc, rest) ==
    IF rest = <<>> THEN acc
    ELSE IF acc # <<>> /\ acc[Len(acc)][1][1] = rest[1][1]
    THEN RunsOf([acc EXCEPT ![Len(acc)] = Append(@, rest[1])], Tail(rest))
    ELSE RunsOf(Append(acc, <<rest[1]>>), Tail(rest))

groupby(s, key) ==
    LET runs == RunsOf(<<>>, Keyed(s, key))
    IN  [g \in 1..Len(runs) |-> Unkeyed(runs[g])]

(***************************************************************************)
(* dict: d[k] = v keeps the position of a key that is already there.       *)
(***************************************************************************)
DictKeys(d) == {d[i][1] : i \in 1..Len(d)}

DictSet(d, k, v) ==
    IF k \in DictKeys(d)
    THEN [i \in 1..Len(d) |-> IF d[i][1] = k THEN <<k, v>> ELSE d[i]]
    ELSE Append(d, <<k, v>>)

RECURSIVE DictSetAll(_, _)
DictSetAll(d, pairs) ==
    IF pairs = <<>> THEN d
    ELSE DictSetAll(DictSet(d, pairs[1][1], pairs[1][2]), Tail(pairs))

DictGet(d, k) == d[CHOOSE i \in 1..Len(d) : d[i][1] = k][2]

(***************************************************************************)
(* Numbers: complexity / num_of_methods is Python's true division, kept    *)
(* exact; f"{x:.3f}" rounds to the nearest thousandth (ties to even).      *)
(***************************************************************************)
RECURSIVE GCD(_, _)
GCD(a, b) == IF b = 0 THEN a ELSE GCD(b, a % b)

TrueDiv(a, b) ==
    LET g == GCD(a, b) IN [num |-> a \div g, den |-> b \div g]

Format3(x) ==
    LET q == (1000 * x.num) \div x.den
        r == (1000 * x.num) % x.den
    IN  IF 2 * r > x.den THEN q + 1
        ELSE IF 2 * r = x.den THEN q + (q % 2)
        ELSE q

\* lines 92-98 of parse_commits, and the same with // for /
IntegerAverage(complexity, num_of_methods) ==
    IF num_of_methods > 0
    THEN [num |-> complexity \div num_of_methods, den |-> 1]
    ELSE [num |-> 0, den |-> 1]

average_complexity(complexity, num_of_methods) ==
    IF num_of_methods > 0
    THEN TrueDiv(complexity, num_of_methods)
    ELSE [num |-> 0, den |-> 1]

(***************************************************************************)
(* class ParsedCommit                                                      *)
(***************************************************************************)
SortedStrings(S) ==
    [p \in 1..Cardinality(S) |->
        CHOOSE x \in S : Cardinality({y \in S : StrLess(y, x)}) = p - 1]

ParsedCommit(commit_hash, commit_date, user_name, user_email, file_name, complexity, avg_complexity, branches) ==
    [hash |-> commit_hash, date |-> commit_date, user |-> user_name,
     email |-> user_email, branches |-> SortedStrings(branches),
     file_name |-> file_name, ccn |-> complexity, avg_ccn |-> avg_complexity]

(***************************************************************************)
(* parse_commits: the three filter tests, the body of the inner loop and   *)
(* the inner loop over commit.modified_files.                              *)
(***************************************************************************)
\* the filter tests as they would be with the length test wrong or missing
SkipByEmailOfLongFilter(email) ==
    (email \notin filter_by_email) /\ (Cardinality(filter_by_email) > 1)

SkipByNameEvenIfEmpty(file_name) == file_name \notin filter_by_name

SkipByEmail(email) ==
    (email \notin filter_by_email) /\ (Cardinality(filter_by_email) > 0)

SkipByName(file_name) ==
    (file_name \notin filter_by_name) /\ (Cardinality(filter_by_name) > 0)

SkipByExtension(file_ext) ==
    (file_ext \notin filter_by_extension) /\ (Cardinality(filter_by_extension) > 0)

\* "if not complexity" for "if complexity is None"
SkipFalsyComplexity(complexity) == complexity = None \/ complexity = Some(0)

SkipByComplexity(complexity) == complexity = None

\* acc = [list |-> linear_history_list, out |-> stdout]
FileStep(commit, file, acc) ==
    LET file_name == splitext(file.filename)[1]
        file_ext == splitext(file.filename)[2]
        complexity == file.complexity
        num_of_methods == Len(file.methods)
    IN  IF SkipByName(file_name) THEN acc
        ELSE IF SkipByExtension(file_ext) THEN acc
        ELSE IF SkipByComplexity(complexity)
        THEN [acc EXCEPT !.out = Append(@, <<"skipped", file.filename>>)]
        ELSE [acc EXCEPT !.list = Append(@,
                 ParsedCommit(commit.hash, commit.author_date,
                              commit.author.name, commit.author.email,
                              file_name, complexity[1],
                              average_complexity(complexity[1], num_of_methods),
                              commit.branches))]

RECURSIVE FileLoop(_, _, _)
FileLoop(commit, files, acc) ==
    IF files = <<>> THEN acc
    ELSE FileLoop(commit, Tail(files), FileStep(commit, files[1], acc))

(***************************************************************************)
(* get_list_of_files, get_list_of_user_emails                              *)
(***************************************************************************)
RECURSIVE Unique(_, _)
Unique(items, seen) ==
    IF items = <<>> THEN seen
    ELSE Unique(Tail(items),
                IF \E i \in 1..Len(seen) : seen[i] = items[1]
                THEN seen ELSE Append(seen, items[1]))

FileNamesOf(data) == [i \in 1..Len(data) |-> data[i].file_name]
EmailsOf(data) == [i \in 1..Len(data) |-> data[i].email]
DatesOf(data) == [i \in 1..Len(data) |-> data[i].date]
HashesOf(data) == [i \in 1..Len(data) |-> data[i].hash]

sorted(list) == StableSort(list, list)

\* the same without sorted()
UnsortedEmails(data) == Unique(EmailsOf(data), <<>>)

get_list_of_files(data) == sorted(Unique(FileNamesOf(data), <<>>))

get_list_of_user_emails(data) == sorted(Unique(EmailsOf(data), <<>>))

(***************************************************************************)
(* group_data_by_date, group_data_by_file: the list after the in-place     *)
(* sort, and the value returned.                                           *)
(***************************************************************************)
K_hash == <<"h", "a", "s", "h">>
K_timestamp == <<"t", "i", "m", "e", "s", "t", "a", "m", "p">>
K_user == <<"u", "s", "e", "r">>
K_user_email == <<"u", "s", "e", "r", "_", "e", "m", "a", "i", "l">>
K_branches == <<"b", "r", "a", "n", "c", "h", "e", "s">>
K_filename == <<"f", "i", "l", "e", "n", "a", "m", "e">>

\* a sort that keeps one record for each date
DistinctDatesSorted(input_data) ==
    LET kept == SelectSeq(input_data,
                    LAMBDA x : x = input_data[CHOOSE k \in 1..Len(input_data) :
                                     /\ input_data[k].date = x.date
                                     /\ \A j \in 1..(k - 1) :
                                            input_data[j].date # x.date])
    IN  StableSort(kept, DatesOf(kept))

SortedByDate(input_data) == StableSort(input_data, DatesOf(input_data))

DateRecord(group) ==
    DictSetAll(<< <<K_hash, group[1].hash>>,
                  <<K_timestamp, group[1].date>>,
                  <<K_user, group[1].user>>,
                  <<K_user_email, group[1].email>>,
                  <<K_branches, group[1].branches>> >>,
               [i \in 1..Len(group) |->
                   <<group[i].file_name, Format3(group[i].avg_ccn)>>])

group_data_by_date(input_data) ==
    LET grouped == groupby(SortedByDate(input_data),
                           HashesOf(SortedByDate(input_data)))
    IN  [g \in 1..Len(grouped) |-> DateRecord(grouped[g])]

\* a sort that is not stable: equal keys come out in reverse order
ReverseTieSortedByFile(input_data) ==
    LET n == Len(input_data)
        rank(i) ==
            Cardinality({j \in 1..n : StrLess(input_data[j].file_name,
                                              input_data[i].file_name)})
            + Cardinality({j \in i..n : input_data[j].file_name
                                            = input_data[i].file_name})
    IN  [p \in 1..n |-> input_data[CHOOSE i \in 1..n : rank(i) = p]]

SortedByFile(input_data) == StableSort(input_data, FileNamesOf(input_data))

FileRecord(group) ==
    DictSetAll(<< <<K_filename, group[1].file_name>> >>,
               [i \in 1..Len(group) |->
                   <<group[i].date, Format3(group[i].avg_ccn)>>])

group_data_by_file(input_data) ==
    LET grouped == groupby(SortedByFile(input_data),
                           FileNamesOf(SortedByFile(input_data)))
    IN  [g \in 1..Len(grouped) |-> FileRecord(grouped[g])]

(***************************************************************************)
(* The repositories and filters the model runs on.                         *)
(***************************************************************************)
Str_a == <<"a">>
Str_b == <<"b">>
Email_a == <<"a", "@", "x">>
Email_b == <<"b", "@", "x">>
Ext_c == <<".", "c">>

Ann == [name |-> Str_a, email |-> Email_a]
Bob == [name |-> Str_b, email |-> Email_b]
Authors == {Ann, Bob}
Dates == {<<"1">>, <<"2">>}
Branches == {Str_b, Str_a}
\* the commits of a repository, in traversal order, have these hashes: a
\* repository has at most Len(Hashes) commits, each of at most MaxFiles files
Hashes == << <<"h", "1">>, <<"h", "2">> >>

Methods(n) == [i \in 1..n |-> i]
File(filename, complexity, n) ==
    [filename |-> filename, complexity |-> complexity, methods |-> Methods(n)]

a_c == File(<<"a", ".", "c">>, Some(4), 2)
a_h == File(<<"a", ".", "h">>, Some(0), 0)
b_c == File(<<"b", ".", "c">>, Some(9), 3)
a_h_binary == File(<<"a", ".", "h">>, None, 0)

FileLists(Files, maxLen) ==
    {Some(l) : l \in UNION {[1..n -> Files] : n \in 0..maxLen}}

Repositories(dates, authors, fileLists, maxCommits) ==
    UNION {{[i \in 1..n |->
               [hash |-> Hashes[i], author_date |-> b[i].author_date,
                author |-> b[i].author, branches |-> Branches,
                modified_files |-> b[i].modified_files]]
            : b \in [1..n -> [author_date : dates, author : authors,
                              modified_files : fileLists]]}
           : n \in 0..maxCommits}

\* filtering: two authors, a file the name filter rejects and one the
\* extension filter rejects, commits whose modified_files is None
FilterRepos ==
    Repositories({<<"1">>}, Authors,
                 {None} \cup FileLists({a_h, b_c}, MaxFiles), Len(Hashes))

\* grouping: two dates, two file stems, a file without complexity
GroupRepos ==
    Repositories(Dates, {Ann}, FileLists({a_c, b_c, a_h_binary}, MaxFiles),
                 Len(Hashes))

\* arithmetic: one commit of one file, of any complexity and method count
ArithNames == {<<"a", ".", "c">>, <<"b">>, <<".", "a">>, <<"a", ".", "b", ".", "c">>}
ArithFiles ==
    {File(f, c, n) : f \in ArithNames,
                     c \in {None} \cup {Some(k) : k \in 0..MaxCcn},
                     n \in 0..MaxMethods}
ArithRepos == Repositories({<<"2">>}, {Bob}, FileLists(ArithFiles, 1), 1)

NameFilters == {{}, {Str_a}}
ExtensionFilters == {{}, {Ext_c}}
EmailFilters == {{}, {Email_a}}

NoReturn == [fn |-> "none", value |-> <<>>]

(***************************************************************************)
(* The state machine.                                                      *)
(***************************************************************************)
Init ==
    /\ \/ /\ repo \in FilterRepos \cup ArithRepos
          /\ filter_by_name \in NameFilters
          /\ filter_by_extension \in ExtensionFilters
          /\ filter_by_email \in EmailFilters
       \/ /\ repo \in GroupRepos
          /\ filter_by_name = {}
          /\ filter_by_extension = {}
          /\ filter_by_email = {}
    /\ pc = "parse"
    /\ next = 1
    /\ linear_history_list = <<>>
    /\ stdout = <<>>
    /\ ret = NoReturn

commit == repo[next]

\* lines 61-69: the commit's author is not in the e-mail filter
TraverseSkipped ==
    /\ pc = "parse"
    /\ next <= Len(repo)
    /\ SkipByEmail(commit.author.email)
    /\ next' = next + 1
    /\ UNCHANGED <<repo, filter_by_name, filter_by_extension, filter_by_email,
                   pc, linear_history_list, stdout, ret>>

\* lines 71-75: modified_files is None; the marker is printed and the for
\* statement then raises TypeError, which nothing catches
TraverseMerge ==
    /\ pc = "parse"
    /\ next <= Len(repo)
    /\ ~SkipByEmail(commit.author.email)
    /\ commit.modified_files = None
    /\ stdout' = stdout \o << <<"commit", commit.hash>>, <<"MERGE", commit.hash>> >>
    /\ pc' = "raised"
    /\ UNCHANGED <<repo, filter_by_name, filter_by_extension, filter_by_email,
                   next, linear_history_list, ret>>

\* lines 71-108: the inner loop over the commit's files
TraverseFiles ==
    /\ pc = "parse"
    /\ next <= Len(repo)
    /\ ~SkipByEmail(commit.author.email)
    /\ commit.modified_files # None
    /\ LET acc == FileLoop(commit, commit.modified_files[1],
                           [list |-> linear_history_list,
                            out |-> Append(stdout, <<"commit", commit.hash>>)])
       IN  /\ linear_history_list' = acc.list
           /\ stdout' = acc.out
    /\ next' = next + 1
    /\ UNCHANGED <<repo, filter_by_name, filter_by_extension, filter_by_email,
                   pc, ret>>

\* line 110 and lines 211-213
ParseReturn ==
    /\ pc = "parse"
    /\ next > Len(repo)
    /\ pc' = "main"
    /\ UNCHANGED <<repo, filter_by_name, filter_by_extension, filter_by_email,
                   next, linear_history_list, stdout, ret>>

CallGetListOfFiles ==
    /\ pc = "main"
    /\ ret' = [fn |-> "get_list_of_files",
               value |-> get_list_of_files(linear_history_list)]
    /\ UNCHANGED <<repo, filter_by_name, filter_by_extension, filter_by_email,
                   pc, next, linear_history_list, stdout>>

CallGetListOfUserEmails ==
    /\ pc = "main"
    /\ ret' = [fn |-> "get_list_of_user_emails",
               value |-> get_list_of_user_emails(linear_history_list)]
    /\ UNCHANGED <<repo, filter_by_name, filter_by_extension, filter_by_email,
                   pc, next, linear_history_list, stdout>>

CallGroupDataByDate ==
    /\ pc = "main"
    /\ linear_history_list' = SortedByDate(linear_history_list)
    /\ ret' = [fn |-> "group_data_by_date",
               value |-> group_data_by_date(linear_history_list)]
    /\ UNCHANGED <<repo, filter_by_name, filter_by_extension, filter_by_email,
                   pc, next, stdout>>

CallGroupDataByFile ==
    /\ pc = "main"
    /\ linear_history_list' = SortedByFile(linear_history_list)
    /\ ret' = [fn |-> "group_data_by_file",
               value |-> group_data_by_file(linear_history_list)]
    /\ UNCHANGED <<repo, filter_by_name, filter_by_extension, filter_by_email,
                   pc, next, stdout>>

Next ==
    \/ TraverseSkipped
    \/ TraverseMerge
    \/ TraverseFiles
    \/ ParseReturn
    \/ CallGetListOfFiles
    \/ CallGetListOfUserEmails
    \/ CallGroupDataByDate
    \/ CallGroupDataByFile

Spec == Init /\ [][Next]_vars

(***************************************************************************)
(* What the statements below refer to: the (commit, modified file) pairs   *)
(* traversed so far, and the tests a pair has to pass.                     *)
(***************************************************************************)
Traversed == next - 1

RECURSIVE Pairs(_)
Pairs(n) ==
    IF n = 0 THEN <<>>
    ELSE Pairs(n - 1) \o
         (IF repo[n].modified_files = None THEN <<>>
          ELSE [j \in 1..Len(repo[n].modified_files[1]) |-> <<n, j>>])

FileOf(p) == repo[p[1]].modified_files[1][p[2]]
Stem(p) == splitext(FileOf(p).filename)[1]
Extension(p) == splitext(FileOf(p).filename)[2]

EmailPasses(p) ==
    filter_by_email = {} \/ repo[p[1]].author.email \in filter_by_email
NamePasses(p) == filter_by_name = {} \/ Stem(p) \in filter_by_name
ExtensionPasses(p) ==
    filter_by_extension = {} \/ Extension(p) \in filter_by_extension
HasComplexity(p) == FileOf(p).complexity # None

Survives(p) ==
    EmailPasses(p) /\ NamePasses(p) /\ ExtensionPasses(p) /\ HasComplexity(p)
SurvivesButName(p) == EmailPasses(p) /\ ExtensionPasses(p) /\ HasComplexity(p)
SurvivesButExtension(p) == EmailPasses(p) /\ NamePasses(p) /\ HasComplexity(p)
SurvivesButEmail(p) == NamePasses(p) /\ ExtensionPasses(p) /\ HasComplexity(p)

PairId(p) ==
    [hash |-> repo[p[1]].hash, date |-> repo[p[1]].author_date,
     user |-> repo[p[1]].author.name, email |-> repo[p[1]].author.email,
     file_name |-> Stem(p), ccn |-> FileOf(p).complexity[1]]
RecordId(r) ==
    [hash |-> r.hash, date |-> r.date, user |-> r.user, email |-> r.email,
     file_name |-> r.file_name, ccn |-> r.ccn]
IdsOf(pairs) == [k \in 1..Len(pairs) |-> PairId(pairs[k])]
EmittedIds ==
    [k \in 1..Len(linear_history_list) |-> RecordId(linear_history_list[k])]

ParseFinished == pc = "parse" /\ next > Len(repo)

(***************************************************************************)
(* C1: the average complexity of every record is complexity divided by the *)
(* method count of its file when that count is positive and 0 when it is   *)
(* 0; it is always defined and never negative.                             *)
(***************************************************************************)
C1_AverageComplexity ==
    pc = "parse" =>
        LET sel == SelectSeq(Pairs(Traversed), Survives)
        IN  \A k \in 1..Len(linear_history_list) :
                /\ k <= Len(sel)
                /\ LET m == Len(FileOf(sel[k]).methods)
                       c == FileOf(sel[k]).complexity[1]
                       avg == linear_history_list[k].avg_ccn
                   IN  /\ avg.den > 0
                       /\ avg.num >= 0
                       /\ m > 0 => avg.num * m = c * avg.den
                       /\ m = 0 => avg.num = 0

\* complexity 10 and no method: the record is there, with average 0
C1_Witness ==
    /\ ParseFinished
    /\ Len(repo) = 1
    /\ repo[1].modified_files # None
    /\ Len(repo[1].modified_files[1]) = 1
    /\ repo[1].modified_files[1][1].complexity = Some(10)
    /\ repo[1].modified_files[1][1].methods = <<>>
    /\ Len(linear_history_list) = 1
    /\ linear_history_list[1].ccn = 10
    /\ linear_history_list[1].avg_ccn.num = 0

(***************************************************************************)
(* C2: an empty filter rejects nothing: with an empty name filter the      *)
(* records emitted are those emitted if the name test did not exist, and   *)
(* likewise for the extension filter and for the e-mail filter.            *)
(***************************************************************************)
C2_EmptyFilterIsNoFilter ==
    pc = "parse" =>
        /\ filter_by_name = {} =>
               EmittedIds = IdsOf(SelectSeq(Pairs(Traversed), SurvivesButName))
        /\ filter_by_extension = {} =>
               EmittedIds = IdsOf(SelectSeq(Pairs(Traversed), SurvivesButExtension))
        /\ filter_by_email = {} =>
               EmittedIds = IdsOf(SelectSeq(Pairs(Traversed), SurvivesButEmail))

\* only the name filter is empty, and a file of another stem than the
\* name filter would have asked for got its record
C2_Witness ==
    /\ ParseFinished
    /\ filter_by_name = {}
    /\ filter_by_extension # {}
    /\ filter_by_email # {}
    /\ \E k \in 1..Len(linear_history_list) :
           linear_history_list[k].file_name = Str_b

(***************************************************************************)
(* C3: the records emitted are, in traversal order and then file order,    *)
(* one for each pair whose e-mail, stem and extension pass the filters     *)
(* (an empty filter passes everything) and whose complexity is not None;   *)
(* a complexity of 0 is emitted.                                           *)
(***************************************************************************)
C3_OutputIsTheSurvivingPairs ==
    pc = "parse" => EmittedIds = IdsOf(SelectSeq(Pairs(Traversed), Survives))

\* two commits of two files each, half of them rejected, and a record of
\* complexity 0 among the emitted ones
C3_Witness ==
    /\ ParseFinished
    /\ Len(Pairs(Traversed)) = 4
    /\ Len(linear_history_list) = 2
    /\ \E k \in 1..2 : linear_history_list[k].ccn = 0
    /\ linear_history_list[1].hash # linear_history_list[2].hash

(***************************************************************************)
(* C4: with a non-empty e-mail filter, no record bears the hash of a       *)
(* commit whose author's e-mail is not in the filter.                      *)
(***************************************************************************)
C4_FilteredCommitLeavesNoRecord ==
    \A i \in 1..Len(repo) :
        (filter_by_email # {} /\ repo[i].author.email \notin filter_by_email)
        => \A k \in 1..Len(linear_history_list) :
               linear_history_list[k].hash # repo[i].hash

\* a commit of the wrong author, whose files pass every other test, was
\* traversed, and the other commit has its record
C4_Witness ==
    /\ pc = "main"
    /\ filter_by_email # {}
    /\ filter_by_name = {}
    /\ filter_by_extension = {}
    /\ Len(repo) = 2
    /\ repo[1].author.email \notin filter_by_email
    /\ repo[1].modified_files # None
    /\ Len(repo[1].modified_files[1]) = 2
    /\ repo[2].author.email \in filter_by_email
    /\ Len(linear_history_list) >= 1

(***************************************************************************)
(* C5: a commit whose list of modified files is empty or None is not an    *)
(* error: the traversal goes on with the next commit.                      *)
(***************************************************************************)
C5_CommitWithoutFilesIsNotAnError ==
    ~(pc = "raised" /\ repo[next].modified_files \in {None, Some(<<>>)})

(***************************************************************************)
(* C6: group_data_by_file loses nothing: every record of the list is one   *)
(* timestamp entry of the output record of its file name, and the output   *)
(* records have as many timestamp entries as the list has records.         *)
(***************************************************************************)
RECURSIVE Total(_)
Total(lens) == IF lens = <<>> THEN 0 ELSE lens[1] + Total(Tail(lens))

TimestampEntries(record) == Len(record) - 1

C6_GroupByFileIsLossless ==
    ret.fn = "group_data_by_file" =>
        /\ Total([g \in 1..Len(ret.value) |-> TimestampEntries(ret.value[g])])
               = Len(linear_history_list)
        /\ \A k \in 1..Len(linear_history_list) :
               \E g \in 1..Len(ret.value) :
                   /\ DictGet(ret.value[g], K_filename)
                          = linear_history_list[k].file_name
                   /\ linear_history_list[k].date \in DictKeys(ret.value[g])
                   /\ \A h \in 1..Len(ret.value) :
                          DictGet(ret.value[h], K_filename)
                              = linear_history_list[k].file_name => h = g

(***************************************************************************)
(* C7: group_data_by_date returns one record for each commit hash of the   *)
(* list: no hash is in two output records, and the record of a hash has an *)
(* entry for every file name the list has under that hash.                 *)
(***************************************************************************)
C7_OneRecordPerCommit ==
    ret.fn = "group_data_by_date" =>
        /\ \A g, h \in 1..Len(ret.value) :
               DictGet(ret.value[g], K_hash) = DictGet(ret.value[h], K_hash)
               => g = h
        /\ \A k \in 1..Len(linear_history_list) :
               \E g \in 1..Len(ret.value) :
                   /\ DictGet(ret.value[g], K_hash) = linear_history_list[k].hash
                   /\ linear_history_list[k].file_name \in DictKeys(ret.value[g])

(***************************************************************************)
(* C8: get_list_of_files and get_list_of_user_emails return the distinct   *)
(* file names (e-mails) of the list, each once, in ascending order, and    *)
(* leave the list as it was.                                               *)
(***************************************************************************)
IsAscendingListOf(l, S) ==
    /\ {l[i] : i \in 1..Len(l)} = S
    /\ \A i \in 1..(Len(l) - 1) : StrLess(l[i], l[i + 1])

C8_SortedDistinctLists ==
    [][/\ ret'.fn = "get_list_of_files" =>
              /\ linear_history_list' = linear_history_list
              /\ IsAscendingListOf(ret'.value,
                     {linear_history_list[k].file_name :
                          k \in 1..Len(linear_history_list)})
       /\ ret'.fn = "get_list_of_user_emails" =>
              /\ linear_history_list' = linear_history_list
              /\ IsAscendingListOf(ret'.value,
                     {linear_history_list[k].email :
                          k \in 1..Len(linear_history_list)})]_vars

\* the e-mails b@x, a@x, a@x give a@x, b@x
C8_Witness ==
    /\ ret.fn = "get_list_of_user_emails"
    /\ [k \in 1..Len(linear_history_list) |-> linear_history_list[k].email]
           = <<Email_b, Email_a, Email_a>>
    /\ ret.value = <<Email_a, Email_b>>

(***************************************************************************)
(* C9: group_data_by_file returns its records in ascending order of file   *)
(* name, and the timestamp entries of each record in the order in which    *)
(* the list passed in had the records of that file (a timestamp that       *)
(* several of them carry is one entry, where the first of them was).       *)
(***************************************************************************)
TimestampsOf(record) == [i \in 1..(Len(record) - 1) |-> record[i + 1][1]]

FirstWith(data, file_name, date) ==
    CHOOSE k \in 1..Len(data) :
        /\ data[k].file_name = file_name /\ data[k].date = date
        /\ \A j \in 1..(k - 1) :
               ~(data[j].file_name = file_name /\ data[j].date = date)

InInputOrder(data, record) ==
    LET f == DictGet(record, K_filename)
        ts == TimestampsOf(record)
    IN  /\ {ts[i] : i \in 1..Len(ts)}
               = {data[k].date : k \in {j \in 1..Len(data) : data[j].file_name = f}}
        /\ \A p, q \in 1..Len(ts) :
               p < q => FirstWith(data, f, ts[p]) < FirstWith(data, f, ts[q])

Occurrences(data, r) == Cardinality({k \in 1..Len(data) : data[k] = r})

IsPermutation(a, b) ==
    /\ Len(a) = Len(b)
    /\ \A k \in 1..Len(a) : Occurrences(a, a[k]) = Occurrences(b, a[k])

C10_GroupingOnlyReorders ==
    [][ret'.fn \in {"group_data_by_date", "group_data_by_file"} =>
          /\ IsPermutation(linear_history_list', linear_history_list)
          /\ get_list_of_files(linear_history_list')
                 = get_list_of_files(linear_history_list)
          /\ get_list_of_user_emails(linear_history_list')
                 = get_list_of_user_emails(linear_history_list)]_vars

\* a grouping call has changed the order of a list of two authors
C10_Witness ==
    /\ ret.fn \in {"group_data_by_date", "group_data_by_file"}
    /\ EmittedIds # IdsOf(SelectSeq(Pairs(Len(repo)), Survives))
    /\ \E j, k \in 1..Len(linear_history_list) :
           linear_history_list[j].email # linear_history_list[k].email

====
